---------------------------- MODULE Spec2Model ----------------------------
(***************************************************************************)
(* Model of umi's MFSU feature plugin                                      *)
(* (packages/preset-built-in/src/plugins/features/mfsu/mfsu.ts):           *)
(* dependency tracking at the end of every compile pass, the rebuild of    *)
(* the shared dependency artifact, the cache write on success and the      *)
(* middleware that serves built files.                                     *)
(*                                                                         *)
(* DepInfo, DepBuilder and the bundler are collaborators whose code is not *)
(* in mfsu.ts; their behaviour is taken from the design document and the   *)
(* definitions that model them say so.                                     *)
(***************************************************************************)
EXTENDS Integers, Sequences, FiniteSets, TLC

VARIABLES
    name,        \* command of this process: "dev", "build" or "mfsu"
    args,        \* its arguments: [sub, mode, force]
    mode,        \* `mode`, set by api.onStart
    mfsuDebug,   \* process.env.MFSU_DEBUG
    installed,   \* version of lodash in the install tree
    tmpDeps,     \* depInfo: Pending Set of the current pass
    dataDeps,    \* depInfo.data.deps: the finalized dependency set
    cache,       \* persisted Snapshot (cache file under tmpDir)
    outDir,      \* artifact in depBuilder.tmpDir: the deps it was built from
    dist,        \* artifact copied into the distribution directory
    jobs,        \* depBuilder: head is the build in flight, the rest wait
    triggered,   \* a one-shot command has run its trigger
    fx,          \* what the last handler did: calls made, values seen
    lastFailed,  \* history: deps of the diff-triggered build that failed last,
                 \* with no successful build since
    unwritten,   \* history: deps of a diff-triggered build whose output was
                 \* written when the process crashed before the cache write
    event,       \* history: the transformer event handled last
    calls,       \* history: the calls of the last onBuildComplete, in order
    userMfsu,    \* api.userConfig.mfsu: [set, production]
    enableEnv,   \* process.env.ENABLE_MFSU is set
    publicPath,  \* `publicPath`, from the bundle config
    files,       \* files under the development output directory that no
                 \* build has produced
    res,         \* what the middleware did with the last request
    lookup       \* the last call of the Version Resolver, with its result

buildVars == <<name, args, mode, mfsuDebug, installed, tmpDeps, dataDeps, cache,
               outDir, dist, jobs, triggered, fx>>
histVars == <<lastFailed, unwritten, event, calls>>
reqVars == <<userMfsu, enableEnv, publicPath, files, res>>
vars == <<buildVars, histVars, reqVars, lookup>>

----------------------------------------------------------------------------
(* Bounds *)

\* number of builds that may wait behind the one in flight
MaxQueue == 1

----------------------------------------------------------------------------
(* Dependencies and versions *)

Specifiers == {"lodash", "react", "axios"}
LodashVersions == {"4.17.0", "4.18.0"}

\* Version Resolver: version of an installed package
getDepVersion(dep, lodashVersion) ==
    CASE dep = "lodash" -> lodashVersion
      [] dep = "react"  -> "17.0.0"
      [] OTHER          -> "0.21.1"

\* the Snapshot a set of specifiers resolves to
Resolve(S, lodashVersion) == [d \in S |-> getDepVersion(d, lodashVersion)]

EmptyDeps == Resolve({}, "4.17.0")
\* an output directory without an artifact; a history variable without a
\* value (functions, like the dependency sets they stand in for)
NoArtifact == [x \in {"no artifact"} |-> ""]
None == [x \in {"none"} |-> ""]


\* the dependency sets a pass can finalize
DepSets == { Resolve(S, v) : S \in SUBSET Specifiers, v \in LodashVersions }

----------------------------------------------------------------------------
(* api.onStart *)

NoArgs == [sub |-> "", mode |-> "", force |-> FALSE]

\* the command lines a process is started with
Commands ==
    { <<"dev", NoArgs>>, <<"build", NoArgs>> } \cup
    { <<"mfsu", [sub |-> s, mode |-> m, force |-> f]>> :
        s \in {"build", "other"},
        m \in {"", "development", "production"},
        f \in BOOLEAN }

\* `mode` as api.onStart computes it from the command and its arguments
OnStartMode(n, a) ==
    IF n = "build" THEN "production"
    ELSE IF n = "mfsu" /\ a.sub = "build" /\ a.mode # "" THEN a.mode
    ELSE "development"

\* depInfo.loadCache(): the in-memory Snapshot is the persisted one
loadCache(persisted) == persisted

----------------------------------------------------------------------------
(* DepInfo *)

\* depInfo.addTmpDep(source)
addTmpDep(pending, source) == pending \cup {source}

\* shouldBuild that compares the specifier keys alone
shouldBuildKeysOnly(new, persisted) == DOMAIN new # DOMAIN persisted

\* shouldBuild: the new resolution against the persisted Snapshot
shouldBuild(new, persisted) ==
    \/ DOMAIN new # DOMAIN persisted
    \/ \E d \in DOMAIN new \cap DOMAIN persisted : new[d] # persisted[d]

\* depInfo.loadTmpDeps(): resolve the Pending Set, diff it, make it data.deps
loadTmpDeps(pending, lodashVersion, persisted) ==
    LET new == Resolve(pending, lodashVersion)
    IN  [deps |-> new, shouldBuild |-> shouldBuild(new, persisted)]

\* depInfo.writeCache(): persist the current data.deps
writeCache(data) == data

----------------------------------------------------------------------------
(* DepBuilder *)

InFlight(q) == { i \in 1..Len(q) : q[i].st # "queued" }

\* depBuilder.build() that starts every build at once
DepBuilderBuildConcurrent(q, deps, should) ==
    Append(q, [deps |-> deps, should |-> should, st |-> "building"])

\* depBuilder.build(): one build at a time, a later call waits its turn
\* (`should` records whether the call came from a dependency diff)
DepBuilderBuild(q, deps, should) ==
    Append(q, [deps |-> deps, should |-> should,
               st |-> IF InFlight(q) = {} THEN "building" ELSE "queued"])

\* q without its i-th element
RemoveAt(q, i) == SubSeq(q, 1, i - 1) \o SubSeq(q, i + 1, Len(q))

\* build i is done: the first waiting build starts if none is in flight
DepBuilderNext(q, i) ==
    LET rest == RemoveAt(q, i)
    IN  IF rest # <<>> /\ InFlight(rest) = {}
        THEN [rest EXCEPT ![1].st = "building"]
        ELSE rest

----------------------------------------------------------------------------
(* buildDeps and its callers *)

\* line 303 with the trigger skipped while a build is in flight
ShouldInvokeIdle(force, should) == (force \/ should) /\ jobs = <<>>

\* line 303 without the force option
ShouldInvokeNoForce(force, should) == should

\* line 303: the condition under which buildDeps calls depBuilder.build
ShouldInvoke(force, should) == force \/ should

\* line 309 without the stats.hasErrors() test
BuildFailedErrOnly(err, hasErrors) == err

\* line 309: the condition under which onBuildComplete returns early
BuildFailed(err, hasErrors) == err \/ hasErrors

\* line 324: the copy into the distribution directory
CopyToDist(m) == m = "production"

\* lines 304-331 with the copy made of the directory as it was when the
\* build was requested
CopiedUnawaited(before, after) == before

\* lines 304-331: buildDeps awaits depBuilder.build before it copies, so
\* the copy is of the directory as the build left it
Copied(before, after) == after

\* line 315: live clients are told to reload
NotifyClients(m) == m = "development"

\* lines 309-319 with the clients told before the cache is written
CallsNotifyFirst(failed, m) ==
    IF failed THEN <<>>
    ELSE (IF NotifyClients(m) THEN <<"sockWrite">> ELSE <<>>) \o <<"writeCache">>

\* lines 309-319: the calls that onBuildComplete makes, in order: none
\* after a failure, else depInfo.writeCache() and then, in development,
\* sockWrite
Calls(failed, m) ==
    IF failed THEN <<>>
    ELSE <<"writeCache">> \o (IF NotifyClients(m) THEN <<"sockWrite">> ELSE <<>>)

\* the elements of a sequence
Range(q) == { q[k] : k \in 1..Len(q) }

buildDeps(force) ==
    LET r == loadTmpDeps(tmpDeps, installed, cache)
        seen == {"loadTmpDeps"} \cup (IF r.shouldBuild THEN {"shouldBuild"} ELSE {})
                \cup (IF force THEN {"force"} ELSE {})
    IN  /\ dataDeps' = r.deps
        /\ tmpDeps' = {}
        /\ cache' = cache
        /\ IF ShouldInvoke(force, r.shouldBuild)
           THEN /\ Len(jobs) < 1 + MaxQueue
                /\ jobs' = DepBuilderBuild(jobs, r.deps, r.shouldBuild)
                /\ fx' = seen \cup {"build"}
                /\ UNCHANGED dist
           ELSE /\ UNCHANGED jobs
                /\ IF CopyToDist(mode)
                   THEN dist' = outDir /\ fx' = seen \cup {"copy"}
                   ELSE UNCHANGED dist /\ fx' = seen
        /\ UNCHANGED <<name, args, mode, mfsuDebug, installed, outDir>>

\* api.onDevCompileDone
ApiOnDevCompileDone ==
    /\ name = "dev"
    /\ buildDeps(FALSE)
    /\ UNCHANGED <<triggered, reqVars, lookup>>

\* api.onBuildComplete({err})
ApiOnBuildComplete(err) ==
    /\ name = "build"
    /\ ~triggered
    /\ triggered' = TRUE
    /\ IF err
       THEN /\ fx' = {}
            /\ UNCHANGED <<name, args, mode, mfsuDebug, installed, tmpDeps, dataDeps,
                           cache, outDir, dist, jobs>>
       ELSE buildDeps(FALSE)
    /\ UNCHANGED <<reqVars, lookup>>

\* the `mfsu` command
MfsuCommand ==
    /\ name = "mfsu"
    /\ ~triggered
    /\ triggered' = TRUE
    /\ IF args.sub = "build"
       THEN buildDeps(args.force)
       ELSE /\ fx' = {"throw"}
            /\ UNCHANGED <<name, args, mode, mfsuDebug, installed, tmpDeps, dataDeps,
                           cache, outDir, dist, jobs>>
    /\ UNCHANGED <<reqVars, lookup>>


----------------------------------------------------------------------------
(* The bundler and the completion notification *)

Outcomes == {"ok", "err", "statsErr"}

\* the artifact after the bundler ended: only a successful build replaces it
EngineOutput(outcome, deps, old) == IF outcome = "ok" THEN deps ELSE old

\* The bundler ends build i with `outcome` and delivers the completion
\* notification in the same turn: onBuildComplete(err, stats) of lines
\* 307-320, then the rest of the buildDeps call that awaited this build
\* (lines 324-331).
onBuildComplete(i, outcome) ==
    /\ i \in InFlight(jobs)
    /\ LET err == outcome = "err"
           hasErrors == outcome = "statsErr"
           failed == BuildFailed(err, hasErrors)
           made == Range(Calls(failed, mode))
           copied == IF CopyToDist(mode) THEN {"copy"} ELSE {}
       IN  /\ outDir' = EngineOutput(outcome, jobs[i].deps, outDir)
           /\ cache' = IF failed THEN cache ELSE writeCache(dataDeps)
           /\ dist' = IF CopyToDist(mode) THEN Copied(outDir, outDir') ELSE dist
           /\ fx' = {"complete", outcome} \cup made \cup copied
    /\ jobs' = DepBuilderNext(jobs, i)
    /\ UNCHANGED <<name, args, mode, mfsuDebug, installed, tmpDeps, dataDeps,
                   triggered, reqVars, lookup>>

----------------------------------------------------------------------------
(* The transformer's events and the install tree *)

RelativeSources == {"./utils"}

\* the (source, isMatch) events of the transformer: a relative import is
\* never a matched dependency
Events(imports) == (imports \X BOOLEAN) \cup (RelativeSources \X {FALSE})

\* opts.source.startsWith('.')
StartsWithDot(source) == source \in RelativeSources

\* lines 181-185: the event is dropped before it is logged or collected
DebugFiltered(dbg, source, isMatch) ==
    /\ dbg # ""
    /\ ~StartsWithDot(source)
    /\ \/ dbg = "MATCHED" /\ ~isMatch
       \/ dbg = "UNMATCHED" /\ isMatch

\* lines 181-193: the event is logged
DebugLogged(dbg, source, isMatch) ==
    /\ dbg # ""
    /\ ~StartsWithDot(source)
    /\ ~DebugFiltered(dbg, source, isMatch)

\* line 195 with the test of opts.isMatch left out
CollectedAlways(isMatch) == TRUE

\* line 195: the event's source is collected
Collected(isMatch) == isMatch

\* onTransformDeps(opts)
onTransformDeps(source, isMatch) ==
    /\ name \in {"dev", "build"}
    /\ ~triggered
    /\ IF DebugFiltered(mfsuDebug, source, isMatch)
       THEN /\ fx' = {}
            /\ UNCHANGED tmpDeps
       ELSE /\ fx' = (IF DebugLogged(mfsuDebug, source, isMatch) THEN {"log"} ELSE {})
                     \cup (IF Collected(isMatch) THEN {"addTmpDep"} ELSE {})
            /\ tmpDeps' = IF Collected(isMatch)
                          THEN addTmpDep(tmpDeps, source) ELSE tmpDeps
    /\ UNCHANGED <<name, args, mode, mfsuDebug, installed, dataDeps, cache, outDir,
                   dist, jobs, triggered, reqVars, lookup>>

\* a package of the install tree is replaced by another version
Upgrade(v) ==
    /\ v # installed
    /\ installed' = v
    /\ fx' = {}
    /\ UNCHANGED <<name, args, mode, mfsuDebug, tmpDeps, dataDeps, cache, outDir,
                   dist, jobs, triggered, reqVars, lookup>>

----------------------------------------------------------------------------
(* Specification of the build side *)

\* the Snapshots a process can find on disk when it starts
InitCaches == { EmptyDeps, Resolve({"lodash", "react"}, "4.17.0") }

\* the Version Resolver has not been called
NoLookup == [dep |-> <<>>, cwd |-> <<>>, alias |-> <<>>, tree |-> <<>>,
             version |-> ""]

\* no transformer event handled yet
NoEvent == [source |-> "", isMatch |-> FALSE]

InitPlugin ==
    /\ \E c \in Commands : name = c[1] /\ args = c[2]
    /\ mode = OnStartMode(name, args)
    /\ installed \in LodashVersions
    /\ tmpDeps = {}
    /\ cache \in InitCaches
    /\ dataDeps = loadCache(cache)
    /\ outDir = IF cache = EmptyDeps THEN NoArtifact ELSE cache
    /\ dist = NoArtifact
    /\ jobs = <<>>
    /\ triggered = FALSE
    /\ fx = {}
    /\ lastFailed = [deps |-> None, first |-> FALSE]
    /\ unwritten = [deps |-> None, first |-> FALSE]
    /\ event = NoEvent
    /\ calls = <<>>

\* the plugin started without MFSU_DEBUG
InitBuild == InitPlugin /\ mfsuDebug = "" /\ lookup = NoLookup

\* a response without a body; a body is the content of a file: which file,
\* of which artifact (none for a file that no build has produced), and
\* whether it is the whole of the file
NoBody == [file |-> <<>>, artifact |-> NoArtifact, complete |-> TRUE]

\* the middleware has served no request
NoResponse == [req |-> [path |-> <<>>, query |-> <<>>], outcome |-> "none",
               headers |-> {}, body |-> NoBody]

Init ==
    /\ InitBuild
    /\ userMfsu = [set |-> TRUE, production |-> FALSE]
    /\ enableEnv = FALSE
    /\ publicPath = <<"/">>
    /\ files = {}
    /\ res = NoResponse

\* the packages the sources of the project under compilation import
CoreImports == {"lodash", "react"}

\* the model's history variables are left alone
NoHist == UNCHANGED histVars

Transform(imports) == \E e \in Events(imports) : onTransformDeps(e[1], e[2])
BuildDone == \E e \in BOOLEAN : ApiOnBuildComplete(e)
Complete == \E i \in 1..(1 + MaxQueue), o \in Outcomes : onBuildComplete(i, o)
Upgraded == \E v \in LodashVersions : Upgrade(v)

Next ==
    \/ Transform(CoreImports) /\ NoHist
    \/ ApiOnDevCompileDone /\ NoHist
    \/ BuildDone /\ NoHist
    \/ MfsuCommand /\ NoHist
    \/ Complete /\ NoHist
    \/ Upgraded /\ NoHist

Spec == Init /\ [][Next]_vars

----------------------------------------------------------------------------
(* Crash and restart; the history variables *)

\* The process dies and the same command is started again (api.onStart,
\* lines 60-97): what is in memory is lost, the Snapshot is loaded from the
\* cache file. `written` says that the bundler had already written the
\* output of the build in flight when the process died, before
\* onBuildComplete could run.
CrashRestart(written) ==
    /\ written => InFlight(jobs) # {}
    /\ outDir' = IF written
                 THEN jobs[CHOOSE i \in InFlight(jobs) : TRUE].deps
                 ELSE outDir
    /\ tmpDeps' = {}
    /\ dataDeps' = loadCache(cache)
    /\ jobs' = <<>>
    /\ triggered' = FALSE
    /\ mode' = OnStartMode(name, args)
    /\ fx' = {"crash"} \cup (IF written THEN {"written"} ELSE {})
    /\ UNCHANGED <<name, args, mfsuDebug, installed, cache, dist, reqVars, lookup>>

\* a history variable that records no build
NoBuild == [deps |-> None, first |-> FALSE]

\* the build in flight, and what a history variable records of it
JobInFlight == jobs[CHOOSE i \in InFlight(jobs) : TRUE]
Recorded == [deps |-> JobInFlight.deps, first |-> FALSE]

\* bookkeeping of lastFailed, read off the step just taken
HistFailed ==
    /\ lastFailed' =
          IF "complete" \in fx'
          THEN IF "ok" \in fx' THEN NoBuild
               ELSE IF JobInFlight.should THEN Recorded ELSE lastFailed
          ELSE lastFailed
    /\ UNCHANGED <<unwritten, event, calls>>

\* bookkeeping of unwritten, read off the step just taken; `first` says
\* that the first pass after the restart has just ended
HistUnwritten ==
    /\ unwritten' =
          IF "crash" \in fx'
          THEN IF "written" \in fx' /\ JobInFlight.should THEN Recorded ELSE NoBuild
          ELSE IF "loadTmpDeps" \in fx'
               THEN IF unwritten.deps # None /\ ~unwritten.first
                    THEN [unwritten EXCEPT !.first = TRUE]
                    ELSE NoBuild
               ELSE unwritten
    /\ UNCHANGED <<lastFailed, event, calls>>

\* a project whose sources import one package
SmallImports == {"lodash"}

HistNext ==
    \/ Transform(SmallImports) /\ HistFailed
    \/ ApiOnDevCompileDone /\ HistFailed
    \/ BuildDone /\ HistFailed
    \/ MfsuCommand /\ HistFailed
    \/ Complete /\ HistFailed
    \/ Upgraded /\ HistFailed

\* the plugin with the failed builds recorded
HistSpec == Init /\ [][HistNext]_vars

CrashNext ==
    \/ Transform(SmallImports) /\ HistUnwritten
    \/ ApiOnDevCompileDone /\ HistUnwritten
    \/ BuildDone /\ HistUnwritten
    \/ MfsuCommand /\ HistUnwritten
    \/ Complete /\ HistUnwritten
    \/ Upgraded /\ HistUnwritten
    \/ (\E w \in BOOLEAN : CrashRestart(w)) /\ HistUnwritten

\* the plugin in a process that can die and be started again
CrashSpec == Init /\ [][CrashNext]_vars

FairNext ==
    \/ Transform(SmallImports) /\ NoHist
    \/ ApiOnDevCompileDone /\ NoHist
    \/ BuildDone /\ NoHist
    \/ MfsuCommand /\ NoHist
    \/ Complete /\ NoHist
    \/ Upgraded /\ NoHist

\* an in-flight build always ends: the bundler completes or fails, and the
\* notification is delivered
FairSpec == Init /\ [][FairNext]_vars /\ WF_vars(Complete /\ NoHist)

\* a development server on a project that imports all three packages,
\* started without a Snapshot
InitScenario ==
    /\ Init
    /\ name = "dev"
    /\ cache = EmptyDeps

ScenarioNext ==
    \/ Transform(Specifiers) /\ NoHist
    \/ ApiOnDevCompileDone /\ NoHist
    \/ Complete /\ NoHist
    \/ Upgraded /\ NoHist

ScenarioSpec == InitScenario /\ [][ScenarioNext]_vars

\* the values of process.env.MFSU_DEBUG: unset, the two filters, any other
DebugSettings == {"", "MATCHED", "UNMATCHED", "1"}

\* a development server started under any MFSU_DEBUG setting
InitDebug ==
    /\ InitPlugin
    /\ name = "dev"
    /\ mfsuDebug \in DebugSettings
    /\ lookup = NoLookup
    /\ userMfsu = [set |-> TRUE, production |-> FALSE]
    /\ enableEnv = FALSE
    /\ publicPath = <<"/">>
    /\ files = {}
    /\ res = NoResponse

\* bookkeeping of event: the event the transformer has just reported
EventRecorded(source, isMatch) ==
    /\ event' = [source |-> source, isMatch |-> isMatch]
    /\ UNCHANGED <<lastFailed, unwritten, calls>>

\* bookkeeping of event: the step just taken handled no event
EventCleared ==
    /\ event' = NoEvent
    /\ UNCHANGED <<lastFailed, unwritten, calls>>

TransformRecorded ==
    \E e \in Events(CoreImports) :
        onTransformDeps(e[1], e[2]) /\ EventRecorded(e[1], e[2])

DebugNext ==
    \/ TransformRecorded
    \/ ApiOnDevCompileDone /\ EventCleared
    \/ Complete /\ EventCleared

\* the plugin with the transformer's events recorded
DebugSpec == InitDebug /\ [][DebugNext]_vars

\* bookkeeping of calls, read off the step just taken
CallsRecorded ==
    /\ calls' = IF "complete" \in fx'
                THEN Calls(fx' \cap {"err", "statsErr"} # {}, mode)
                ELSE <<>>
    /\ UNCHANGED <<lastFailed, unwritten, event>>

NotifyNext ==
    \/ Transform(SmallImports) /\ CallsRecorded
    \/ ApiOnDevCompileDone /\ CallsRecorded
    \/ BuildDone /\ CallsRecorded
    \/ MfsuCommand /\ CallsRecorded
    \/ Complete /\ CallsRecorded

\* the plugin with the calls of its completion notifications recorded
NotifySpec == Init /\ [][NotifyNext]_vars

----------------------------------------------------------------------------
(* The middleware of api.addBeforeMiddlewares *)

\* paths and urls are sequences of characters
IsPrefix(p, t) == Len(p) <= Len(t) /\ SubSeq(t, 1, Len(p)) = p
Slice(t, n) == SubSeq(t, n + 1, Len(t))

\* positions of character c in t
Positions(c, t) == { i \in 1..Len(t) : t[i] = c }
Last(S) == CHOOSE i \in S : \A j \in S : j <= i

\* the pattern of the regular expression /remoteEntry.js/ ("any" stands
\* for its dot, which matches any character)
RemoteEntryPattern ==
    <<"r", "e", "m", "o", "t", "e", "E", "n", "t", "r", "y", "any", "j", "s">>

\* RegExp.test(): the pattern matches somewhere in the text
RegexTest(pattern, text) ==
    \E i \in 1..(Len(text) - Len(pattern) + 1) :
        \A k \in 1..Len(pattern) :
            pattern[k] = "any" \/ text[i + k - 1] = pattern[k]

\* req.url: the path with the query string
Url(req) == IF req.query = <<>> THEN req.path ELSE req.path \o <<"?">> \o req.query

\* line 244: path.replace(new RegExp(`^${publicPath}`), '/').slice(1)
\* (the public paths of the model hold no character special to RegExp)
FilePath(path, base) ==
    IF IsPrefix(base, path)
    THEN Slice(<<"/">> \o Slice(path, Len(base)), 1)
    ELSE Slice(path, 1)

\* parse(path).ext: the extension of the last segment of the path
Ext(path) ==
    LET slashes == Positions("/", path)
        basename == IF slashes = {} THEN path ELSE Slice(path, Last(slashes))
        dots == Positions(".", basename) \ {1}
    IN  IF dots = {} THEN <<>> ELSE Slice(basename, Last(dots) - 1)

\* mime.lookup(ext)
MimeLookup(ext) ==
    CASE ext = <<".", "j", "s">>      -> "application/javascript"
      [] ext = <<".", "m", "a", "p">> -> "application/json"
      [] OTHER                        -> "application/octet-stream"

\* directories under the output directory: the directory itself and the
\* parents of its files
IsDirectory(fs, fp) ==
    fp = <<>> \/ \E f \in fs : IsPrefix(fp \o <<"/">>, f)

\* existsSync(join(mfsuPath, filePath))
ExistsSync(fs, fp) == fp \in fs \/ IsDirectory(fs, fp)

\* enableBy() of api.describe, lines 143-149
EnableBy(env, mfsu, envEnable) ==
    \/ env = "development" /\ mfsu.set
    \/ env = "production" /\ mfsu.production
    \/ envEnable

\* lines 246-250: the request is handed to next()
PassThrough(mfsu, path, exists) == ~mfsu.set \/ path = <<"/">> \/ ~exists

\* line 256: the entry file is left out of the long-lived caching
ExcludedFromCaching(url) == RegexTest(RemoteEntryPattern, url)

Immutable == <<"cache-control", "max-age=31536000,immutable">>

\* the files of an artifact: the entry file and one chunk for each dependency
EntryFile == <<"r", "e", "m", "o", "t", "e", "E", "n", "t", "r", "y", ".", "j", "s">>
ChunkName ==
    [d \in Specifiers |->
        CASE d = "lodash" -> <<"l", "o", "d", "a", "s", "h", ".", "j", "s">>
          [] d = "react"  -> <<"r", "e", "a", "c", "t", ".", "j", "s">>
          [] OTHER        -> <<"a", "x", "i", "o", "s", ".", "j", "s">>]
ArtifactFiles(artifact) ==
    IF artifact = NoArtifact THEN {}
    ELSE {EntryFile} \cup { ChunkName[d] : d \in DOMAIN artifact }

\* the bundler has emitted the files of build i; they are not yet in the
\* output directory
BundlerEmits(i) ==
    /\ i \in 1..Len(jobs)
    /\ jobs[i].st = "building"
    /\ jobs' = [jobs EXCEPT ![i].st = "emitting"]
    /\ fx' = {"emit"}
    /\ UNCHANGED <<name, args, mode, mfsuDebug, installed, tmpDeps, dataDeps, cache,
                   outDir, dist, triggered, reqVars, lookup>>

\* the artifact with the files of the build in flight readable while they
\* are written
VisibleUnstaged(out, q) ==
    IF \E i \in 1..Len(q) : q[i].st = "emitting"
    THEN [artifact |-> q[CHOOSE i \in 1..Len(q) : q[i].st = "emitting"].deps,
          complete |-> FALSE]
    ELSE [artifact |-> out, complete |-> TRUE]

\* what a reader finds of the artifact in the output directory: a file
\* is not readable mid-write, so it is the artifact of the last build that
\* ended with success, whatever the build in flight has emitted
Visible(out, q) == [artifact |-> out, complete |-> TRUE]

\* the files of the development output directory that a build produced
\* (a production build writes to another directory)
BuiltFiles ==
    IF mode = "development" THEN ArtifactFiles(Visible(outDir, jobs).artifact) ELSE {}

\* readFileSync(join(mfsuPath, filePath))
ReadFileSync(fp) ==
    IF fp \in BuiltFiles
    THEN [file |-> fp,
          artifact |-> Visible(outDir, jobs).artifact,
          complete |-> Visible(outDir, jobs).complete]
    ELSE [NoBody EXCEPT !.file = fp]

\* The dev server handles a request. The plugin's middleware is there only
\* when the plugin is enabled (api.env is development in a dev server).
Middleware(req) ==
    LET fp == FilePath(req.path, publicPath)
        fs == files \cup BuiltFiles
        pass == [req |-> req, outcome |-> "next", headers |-> {}, body |-> NoBody]
    IN  /\ res' =
              IF ~EnableBy("development", userMfsu, enableEnv) THEN pass
              ELSE IF PassThrough(userMfsu, req.path, ExistsSync(fs, fp)) THEN pass
              ELSE IF IsDirectory(fs, fp)
                   THEN [pass EXCEPT !.outcome = "throw"]
              ELSE [req |-> req,
                    outcome |-> "sent",
                    headers |-> {<<"content-type", MimeLookup(Ext(req.path))>>}
                                \cup (IF ~ExcludedFromCaching(Url(req))
                                      THEN {Immutable} ELSE {}),
                    body |-> ReadFileSync(fp)]
        /\ UNCHANGED <<buildVars, histVars, userMfsu, enableEnv, publicPath, files,
                       lookup>>

\* modifyBundleConfig, line 275: publicPath = memo.output.publicPath
ModifyBundleConfig(p) ==
    /\ publicPath' = p
    /\ UNCHANGED <<buildVars, histVars, userMfsu, enableEnv, files, res, lookup>>

\* the inputs of the middleware
EntryMapFile == <<"r", "e", "m", "o", "t", "e", "E", "n", "t", "r", "y", ".", "j", "s", ".", "m", "a", "p">>
ChunkFile == <<"a", ".", "j", "s">>
NestedFile == <<"s", "t", "a", "t", "i", "c", "/", "b", ".", "c", "s", "s">>

PublicPaths == { <<"/">>, <<"/", "a", "p", "p", "/">> }
FileSets == { {}, {EntryFile, EntryMapFile, ChunkFile, NestedFile} }
UserConfigs == { [set |-> FALSE, production |-> FALSE],
                 [set |-> TRUE, production |-> FALSE],
                 [set |-> TRUE, production |-> TRUE] }
Queries == { <<>>, <<"f", "r", "o", "m", "=", "r", "e", "m", "o", "t", "e", "E", "n", "t", "r", "y", ".", "j", "s">> }
RelativePaths == { <<>>, EntryFile, EntryMapFile, ChunkFile, NestedFile,
                   <<"s", "t", "a", "t", "i", "c">>, <<"m", "i", "s", "s", "i", "n", "g", ".", "j", "s">> }
Requests ==
    { [path |-> b \o r, query |-> q] :
        b \in PublicPaths, r \in RelativePaths, q \in Queries }

InitReq ==
    /\ InitBuild
    /\ name = "dev"
    /\ cache = EmptyDeps
    /\ installed = "4.17.0"
    /\ userMfsu \in UserConfigs
    /\ enableEnv \in BOOLEAN
    /\ publicPath \in PublicPaths
    /\ files \in FileSets
    /\ res = NoResponse

NextReq ==
    \/ \E r \in Requests : Middleware(r)
    \/ \E p \in PublicPaths : ModifyBundleConfig(p)

\* the dev server serving requests
ReqSpec == InitReq /\ [][NextReq]_vars

\* requests for files of the artifact
ArtifactRequests ==
    { [path |-> <<"/">> \o f, query |-> <<>>] :
        f \in {EntryFile, ChunkName["lodash"]} }

\* a development server whose output directory holds the files of builds
InitServe ==
    /\ Init
    /\ name = "dev"
    /\ installed = "4.17.0"
    /\ cache # EmptyDeps

Emitted == \E i \in 1..(1 + MaxQueue) : BundlerEmits(i)
Served == \E r \in ArtifactRequests : Middleware(r)

ServeNext ==
    \/ Transform(SmallImports) /\ NoHist
    \/ ApiOnDevCompileDone /\ NoHist
    \/ Emitted /\ NoHist
    \/ Complete /\ NoHist
    \/ Served

\* the dev server serving requests while builds run
ServeSpec == InitServe /\ [][ServeNext]_vars

----------------------------------------------------------------------------
(* The Version Resolver, getDepVersion({ dep, cwd, webpackAlias }) *)

\* Specifiers and paths are sequences of segments; an absolute path starts
\* with the segment "/". Directories are paths below the root.
IsAbsolute(spec) == spec # <<>> /\ spec[1] = "/"

Scopes == {"@s"}

\* step 3: the package root name, a scoped name taken as one unit
PackageRoot(spec) ==
    IF spec[1] \in Scopes /\ Len(spec) >= 2
    THEN SubSeq(spec, 1, 2)
    ELSE SubSeq(spec, 1, 1)

\* the directories of the file system and the packages that can be installed
Dirs == { <<>>, <<"ws">>, <<"ws", "app">> }
PkgRoots == { <<"core">>, <<"@s", "core">> }

\* an install tree says which packages each directory's install directory
\* holds
Trees == [Dirs -> SUBSET PkgRoots]

\* the directory and its ancestors up to the root
Ancestors(d) == { SubSeq(d, 1, n) : n \in 0..Len(d) }

\* the version that the manifest of package p installed in d declares
ManifestVersion(d, p) ==
    IF p = <<"core">>
    THEN CASE d = <<>> -> "4.0.0" [] d = <<"ws">> -> "4.1.0" [] OTHER -> "4.2.0"
    ELSE CASE d = <<>> -> "7.0.0" [] d = <<"ws">> -> "7.1.0" [] OTHER -> "7.2.0"

\* the failure of the resolver: an error whose message starts with [MFSU]
Unresolved == "[MFSU] error"

\* of a set of sequences, the longest
Longest(S) == CHOOSE x \in S : \A y \in S : Len(y) <= Len(x)

\* step 4 with the probe made in the starting directory only
InstalledVersionLocal(tree, cwd, root) ==
    IF root \in tree[cwd] THEN ManifestVersion(cwd, root) ELSE Unresolved

\* step 4: the install directory of cwd is probed for the package, then
\* those of its ancestors up to the root
InstalledVersion(tree, cwd, root) ==
    LET has == { a \in Ancestors(cwd) : root \in tree[a] }
    IN  IF has = {} THEN Unresolved ELSE ManifestVersion(Longest(has), root)

\* where package p installed in directory d lies
InstallPath(d, p) == <<"/">> \o d \o <<"node_modules">> \o p

\* step 4 for an absolute path: the nearest manifest at or above the path
ManifestAbove(tree, path) ==
    LET above == { x \in Dirs \X PkgRoots :
                     x[2] \in tree[x[1]] /\ IsPrefix(InstallPath(x[1], x[2]), path) }
        at == CHOOSE x \in above :
                 \A y \in above : Len(InstallPath(y[1], y[2])) <= Len(InstallPath(x[1], x[2]))
    IN  IF above = {} THEN Unresolved ELSE ManifestVersion(at[1], at[2])

\* step 2: the key of the alias table that matches the specifier: the
\* longest of its prefixes that is a key; <<>> when none is
AliasKey(alias, spec) ==
    LET keys == { k \in DOMAIN alias : IsPrefix(k, spec) }
    IN  IF keys = {} THEN <<>> ELSE Longest(keys)

\* the specifier with the matching key replaced by what it maps to, the
\* rest of the sub-path kept
Aliased(alias, spec) ==
    LET k == AliasKey(alias, spec) IN alias[k] \o Slice(spec, Len(k))

\* step 2 taken once only: an alias that maps to a specifier is looked up
\* in the install tree without being resolved again
RECURSIVE resolveOneHop(_, _, _, _, _)
resolveOneHop(spec, cwd, alias, tree, hops) ==
    IF IsAbsolute(spec) THEN ManifestAbove(tree, spec)
    ELSE IF AliasKey(alias, spec) # <<>>
         THEN IF IsAbsolute(Aliased(alias, spec))
              THEN ManifestAbove(tree, Aliased(alias, spec))
              ELSE InstalledVersion(tree, cwd, PackageRoot(Aliased(alias, spec)))
         ELSE InstalledVersion(tree, cwd, PackageRoot(spec))

\* steps 1-5; `hops` is how many more alias redirections are followed (an
\* alias table must terminate)
RECURSIVE resolveFrom(_, _, _, _, _)
resolveFrom(spec, cwd, alias, tree, hops) ==
    IF IsAbsolute(spec) THEN ManifestAbove(tree, spec)
    ELSE IF AliasKey(alias, spec) # <<>>
         THEN IF hops = 0 THEN Unresolved
              ELSE resolveFrom(Aliased(alias, spec), cwd, alias, tree, hops - 1)
         ELSE InstalledVersion(tree, cwd, PackageRoot(spec))

\* resolve(specifier, cwd, aliasTable) on an install tree
resolve(spec, cwd, alias, tree) ==
    resolveFrom(spec, cwd, alias, tree, Cardinality(DOMAIN alias))

\* the alias tables of the model: none; to an absolute path; to a
\* specifier; through two hops to a specifier and to an absolute path; to
\* a path with no manifest above it; keys with a sub-path and an extension;
\* to a package that is not installed
NoAlias == << >>
CoreFile == InstallPath(<<"ws">>, <<"core">>) \o <<"src", "x">>
ScopedFile == InstallPath(<<>>, <<"@s", "core">>) \o <<"src", "t">>
AliasTables ==
    { NoAlias,
      (<<"foo">> :> ScopedFile),
      (<<"foo">> :> <<"@s", "core">>),
      (<<"foo">> :> <<"bar">>) @@ (<<"bar">> :> <<"core">>),
      (<<"foo">> :> <<"bar">>) @@ (<<"bar">> :> CoreFile),
      (<<"foo">> :> <<"/", "bar">>),
      (<<"foo.js">> :> CoreFile) @@ (<<"foo", "bar.js">> :> ScopedFile),
      (<<"foo">> :> <<"missing">>) }

\* the specifiers resolved
Deps ==
    { <<"core">>, <<"core", "lib", "x.js">>, <<"@s", "core">>,
      <<"@s", "core", "src">>, <<"foo">>, <<"foo", "bar">>, <<"foo", "bar.js">>,
      <<"foo.js">>, <<"missing">>, CoreFile, ScopedFile, <<"/", "bar">> }

\* getDepVersion is called, with the alias table of the bundle config and
\* on the install tree that is on disk
GetDepVersion(dep, cwd) ==
    /\ lookup' = [lookup EXCEPT
                     !.dep = dep,
                     !.cwd = cwd,
                     !.version = resolve(dep, cwd, lookup.alias, lookup.tree)]
    /\ UNCHANGED <<buildVars, histVars, reqVars>>

\* a development server on any install tree, with any alias table
InitResolver ==
    /\ InitPlugin
    /\ name = "dev"
    /\ installed = "4.17.0"
    /\ cache = EmptyDeps
    /\ mfsuDebug = ""
    /\ userMfsu = [set |-> TRUE, production |-> FALSE]
    /\ enableEnv = FALSE
    /\ publicPath = <<"/">>
    /\ files = {}
    /\ res = NoResponse
    /\ lookup \in { [NoLookup EXCEPT !.tree = t, !.alias = a] :
                       t \in Trees, a \in AliasTables }

NextResolver == \E dep \in Deps, cwd \in Dirs : GetDepVersion(dep, cwd)

\* the Version Resolver called on any of its inputs
ResolverSpec == InitResolver /\ [][NextResolver]_vars

----------------------------------------------------------------------------
(* Claims *)

C2_TriggerNotDropped ==
    \A d \in DepSets :
        ("shouldBuild" \in fx /\ dataDeps = d)
            ~> (\E i \in InFlight(jobs) : jobs[i].deps = d)

\* a pass with a diff has ended while the build of another set was in flight
C2_Witness ==
    /\ "shouldBuild" \in fx
    /\ Len(jobs) = 2
    /\ jobs[2].st = "queued"
    /\ jobs[2].deps = dataDeps
    /\ jobs[1].deps # dataDeps

\* C3: writeCache is called only from a completion notification without
\* err and without error-bearing stats; the persisted Snapshot changes only
\* there, and a failed build leaves the Snapshot and the output directory
\* as they were.
C3_WriteOnlyOnSuccess ==
    /\ []("writeCache" \in fx => ("complete" \in fx /\ "ok" \in fx))
    /\ [][cache' # cache => "writeCache" \in fx']_vars
    /\ [][("complete" \in fx' /\ "ok" \notin fx')
            => (cache' = cache /\ outDir' = outDir)]_vars

\* a build has reported error-bearing stats while the pass it was built
\* for differs from the persisted Snapshot
C3_Witness ==
    /\ "complete" \in fx
    /\ "statsErr" \in fx
    /\ dataDeps # cache
    /\ outDir # NoArtifact

\* C4: at the end of every pass shouldBuild is true iff the resolved
\* dependency set of the pass differs from the persisted Snapshot (a key
\* added or removed, or a version changed).
C4_ShouldBuildIffDiff ==
    "loadTmpDeps" \in fx => (("shouldBuild" \in fx) <=> (dataDeps # cache))

\* a pass has ended with the Snapshot's specifiers and one version changed
C4_Witness ==
    /\ "loadTmpDeps" \in fx
    /\ "shouldBuild" \in fx
    /\ cache # EmptyDeps
    /\ DOMAIN dataDeps = DOMAIN cache

\* C5: buildDeps invokes the bundler iff shouldBuild is true or force is
\* set; without either no build is invoked, the cache is not written and
\* no reload is sent.
C5_BuildIffShouldOrForce ==
    /\ []("loadTmpDeps" \in fx
            => (("build" \in fx) <=> ("shouldBuild" \in fx \/ "force" \in fx)))
    /\ [][("loadTmpDeps" \in fx' /\ "shouldBuild" \notin fx' /\ "force" \notin fx')
            => /\ jobs' = jobs
               /\ cache' = cache
               /\ fx' \cap {"build", "writeCache", "sockWrite"} = {}]_vars

\* a pass that observed dependencies has ended without a diff and without
\* a build
C5_Witness ==
    /\ name = "dev"
    /\ "loadTmpDeps" \in fx
    /\ "build" \notin fx
    /\ dataDeps # EmptyDeps

\* the dependency sets of the four passes of the scenario (passes 1 and 2
\* observe the same set)
Pass1 == Resolve({"lodash", "react"}, "4.17.0")
Pass3 == Resolve({"lodash", "react", "axios"}, "4.17.0")
Pass4 == Resolve({"lodash", "react"}, "4.18.0")

\* the scenario pass by pass: each pass against the Snapshot that the
\* successful build of the pass before it leaves
C6_Scenario ==
    "loadTmpDeps" \in fx =>
        /\ (cache = EmptyDeps /\ dataDeps = Pass1) => "shouldBuild" \in fx
        /\ (cache = Pass1 /\ dataDeps = Pass1) => "shouldBuild" \notin fx
        /\ (cache = Pass1 /\ dataDeps = Pass3) => "shouldBuild" \in fx
        /\ (cache = Pass3 /\ dataDeps = Pass4) => "shouldBuild" \in fx

\* C6: after every successful build the persisted Snapshot is exactly the
\* dependency set of the pass that triggered that build (replaced, not
\* merged), and over the passes lodash+react, the same, plus axios, lodash
\* 4.18.0+react shouldBuild is true, false, true, true.
C6_SnapshotReplaced ==
    /\ [][("writeCache" \in fx')
            => (\A i \in InFlight(jobs) : cache' = jobs[i].deps)]_vars
    /\ []C6_Scenario

\* C7 as stated: once a build triggered by a diff has failed, every pass
\* that observes the same dependency set yields shouldBuild true and
\* invokes the build again, until a build succeeds.
C7_RetryAfterFailure ==
    ("loadTmpDeps" \in fx /\ lastFailed.deps = dataDeps)
        => ("shouldBuild" \in fx /\ "build" \in fx)

\* C8 as stated: after a crash between a successful build and its cache
\* write, the first pass of the restarted process that observes the same
\* dependency set yields shouldBuild true and rebuilds.
C8_RebuildAfterCrash ==
    ("loadTmpDeps" \in fx /\ unwritten.first /\ unwritten.deps = dataDeps)
        => ("shouldBuild" \in fx /\ "build" \in fx)

\* C9: of the requests the middleware serves, the one for the entry file
\* remoteEntry.js never gets the immutable cache-control header and every
\* other served file always gets it.
C9_OnlyEntryNotImmutable ==
    res.outcome = "sent" =>
        /\ res.body.file = EntryFile => Immutable \notin res.headers
        /\ res.body.file # EntryFile => Immutable \in res.headers

\* C10: every request has exactly one of two outcomes: when the feature is
\* enabled and the path relative to the public path is a file of the output
\* directory, that file is sent and next() is not called; otherwise next()
\* is called and the response gets no header and no body.
C10_ServeOrPassThrough ==
    [][res' # res =>
        LET fp == FilePath(res'.req.path, publicPath)
        IN  IF EnableBy("development", userMfsu, enableEnv)
                   /\ fp \in files \cup BuiltFiles
            THEN res'.outcome = "sent" /\ res'.body.file = fp
            ELSE res'.outcome = "next" /\ res'.headers = {} /\ res'.body = NoBody]_vars

\* C11: in production mode the copy into the distribution directory is made
\* after the success notification of a build, and leaves the distribution
\* directory holding the artifact that build produced.
C11_CopyAfterSuccess ==
    [][(mode = "production" /\ "complete" \in fx' /\ "ok" \in fx')
        => /\ "writeCache" \in fx'
           /\ "copy" \in fx'
           /\ \A i \in InFlight(jobs) : dist' = jobs[i].deps]_vars

\* a production build has succeeded and its artifact, which is not the one
\* the output directory held at the start, is in the distribution directory
C11_Witness ==
    /\ mode = "production"
    /\ {"complete", "ok", "copy"} \subseteq fx
    /\ dist = outDir
    /\ dist = dataDeps
    /\ dist # cache \/ dist \notin InitCaches

\* C12: the `mfsu` command ends with an error when its subcommand is not
\* `build` (and then invokes no build), and when its build reports an
\* error or stats with errors.
C12_CommandFails ==
    [][name = "mfsu" =>
        /\ (~triggered /\ triggered' /\ args.sub # "build")
              => ("throw" \in fx' /\ "build" \notin fx' /\ jobs' = jobs)
        /\ ("complete" \in fx' /\ fx' \cap {"err", "statsErr"} # {})
              => "throw" \in fx']_vars

\* C13: depInfo.addTmpDep is never called for an event whose isMatch is
\* false, and such an event leaves the Pending Set as it was.
C13_OnlyMatchedCollected ==
    [][(event'.source # "" /\ ~event'.isMatch)
        => ("addTmpDep" \notin fx' /\ tmpDeps' = tmpDeps)]_vars

\* an unmatched import of a package has been reported, and logged, while a
\* matched one is pending
C13_Witness ==
    /\ event.source \in CoreImports
    /\ ~event.isMatch
    /\ "log" \in fx
    /\ tmpDeps # {}
    /\ event.source \notin tmpDeps

\* C20: every matched event is recorded in the Pending Set
\* (depInfo.addTmpDep is called with its source), whatever the MFSU_DEBUG
\* setting and whatever the specifier.
C20_MatchedAlwaysCollected ==
    [][(event'.source # "" /\ event'.isMatch)
        => ("addTmpDep" \in fx' /\ event'.source \in tmpDeps')]_vars

\* how many alias redirections lead from the specifier to its ultimate
\* target, and that target
RECURSIVE Hops(_, _, _)
Hops(alias, spec, left) ==
    IF IsAbsolute(spec) \/ AliasKey(alias, spec) = <<>> \/ left = 0 THEN 0
    ELSE 1 + Hops(alias, Aliased(alias, spec), left - 1)

RECURSIVE UltimateTarget(_, _, _)
UltimateTarget(alias, spec, left) ==
    IF left = 0 THEN spec
    ELSE UltimateTarget(alias, Aliased(alias, spec), left - 1)

\* C14: a specifier that the alias table redirects, in one or two hops, to
\* an absolute path or to another specifier, with or without a remaining
\* sub-path, gets the version that its ultimate target gets when resolved
\* directly.
C14_AliasSameAsTarget ==
    LET n == Hops(lookup.alias, lookup.dep, Cardinality(DOMAIN lookup.alias))
    IN  (lookup.dep # <<>> /\ n \in {1, 2})
            => lookup.version =
                   resolve(UltimateTarget(lookup.alias, lookup.dep, n),
                           lookup.cwd, NoAlias, lookup.tree)

\* a specifier with a sub-path has been resolved through two hops to an
\* installed package
C14_Witness ==
    /\ lookup.dep = <<"foo", "bar.js">>
    /\ Hops(lookup.alias, lookup.dep, Cardinality(DOMAIN lookup.alias)) = 2
    /\ lookup.version = "4.1.0"
    /\ lookup.cwd = <<"ws", "app">>

\* the ancestors of the starting directory, itself included, whose install
\* directory holds the package of the specifier resolved last
HoldingAncestors ==
    { a \in Ancestors(lookup.cwd) : PackageRoot(lookup.dep) \in lookup.tree[a] }

\* C15: a package looked up from a directory is found in the nearest
\* directory, from the start up to the root, whose install directory holds
\* it; the resolver fails with an [MFSU] error exactly when no such
\* directory holds it, and also when an alias points at a path with no
\* manifest above it.
C15_NearestAncestor ==
    /\ (lookup.dep # <<>> /\ ~IsAbsolute(lookup.dep)
          /\ AliasKey(lookup.alias, lookup.dep) = <<>>)
        => /\ (lookup.version = Unresolved) <=> (HoldingAncestors = {})
           /\ \A a \in HoldingAncestors :
                 (\A b \in HoldingAncestors : Len(b) <= Len(a))
                    => lookup.version = ManifestVersion(a, PackageRoot(lookup.dep))
    /\ (lookup.dep # <<>> /\ ~IsAbsolute(lookup.dep)
          /\ AliasKey(lookup.alias, lookup.dep) # <<>>
          /\ Aliased(lookup.alias, lookup.dep)[1] = "/"
          /\ \A d \in Dirs, p \in PkgRoots :
                ~IsPrefix(InstallPath(d, p), Aliased(lookup.alias, lookup.dep)))
        => lookup.version = Unresolved

\* a deep import of a scoped package has been resolved from a directory
\* without the package, which its parent and the root both hold
C15_Witness ==
    /\ lookup.dep = <<"@s", "core", "src">>
    /\ lookup.cwd = <<"ws", "app">>
    /\ lookup.alias = NoAlias
    /\ <<"@s", "core">> \notin lookup.tree[<<"ws", "app">>]
    /\ <<"@s", "core">> \in lookup.tree[<<"ws">>]
    /\ <<"@s", "core">> \in lookup.tree[<<>>]
    /\ lookup.version = "7.1.0"

ArtifactCoversSnapshot ==
    \A d \in DOMAIN cache :
        outDir # NoArtifact /\ d \in DOMAIN outDir /\ outDir[d] = cache[d]

\* C17: whenever the Snapshot is persisted, it is the dependency set that
\* was handed to the build whose success triggered the write, also when
\* another pass was finalized while that build was in flight; so whenever
\* a pass ends with shouldBuild false, the artifact covers the Snapshot.
C17_SnapshotIsBuiltSet ==
    /\ [][("writeCache" \in fx')
            => (\E i \in InFlight(jobs) : cache' = jobs[i].deps /\ outDir' = cache')]_vars
    /\ [](("loadTmpDeps" \in fx /\ "shouldBuild" \notin fx) => ArtifactCoversSnapshot)

\* C18: a build requested by a pass that ended while another build was in
\* flight is decided on again when that build has finished: when the build
\* in flight was of the same dependency set and ends with success, no
\* second build of that set is run.
C18_NoRedundantBuild ==
    [][("complete" \in fx' /\ "ok" \in fx')
        => \A i \in InFlight(jobs), j \in InFlight(jobs') :
               jobs'[j].deps # jobs[i].deps]_vars

\* C19: on a successful build the cache is written before the clients are
\* told to reload; the reload is sent only in development mode and only
\* after a build that reported success, never after a failed build or in
\* production mode.
C19_WriteThenNotify ==
    /\ ("complete" \in fx /\ "ok" \in fx)
        => /\ calls # <<>>
           /\ calls[1] = "writeCache"
           /\ ("sockWrite" \in Range(calls)) <=> (mode = "development")
    /\ ("sockWrite" \in fx \/ "sockWrite" \in Range(calls))
        => (mode = "development" /\ "complete" \in fx /\ "ok" \in fx)

\* a development build has succeeded: the cache was written and then the
\* clients were told
C19_Witness ==
    /\ mode = "development"
    /\ {"complete", "ok"} \subseteq fx
    /\ calls = <<"writeCache", "sockWrite">>
    /\ cache = dataDeps

============================================================================
